---- MODULE Spec2Model ----
(***************************************************************************)
(* Model of src/agent/whisper/app.py: the Flask service with the           *)
(* /transcribe handler and the five-step /generate_thots pipeline.         *)
(*                                                                         *)
(* A Python str is a sequence of tokens; the tokens are the markers the    *)
(* parser splits on ("<pad>", "</s"), the character ">", the blank " ",    *)
(* words, and whole literal lines of the prompt templates.  A Python list  *)
(* of str is a sequence of such strings.                                   *)
(***************************************************************************)
EXTENDS Integers, Sequences, FiniteSets, TLC

\* ------------------------------------------------------------------ bounds
NumReqs == 2        \* request contexts the web framework runs concurrently
MaxLen == 4         \* longest raw output (in tokens) given to the parser

Reqs == 1..NumReqs

\* ----------------------------------------------------------------- strings
PAD == "<pad>"
CLOSE == "</s"
GT == ">"
SP == " "
NL == "\n"

\* str.lower() on one token
LowerTok(t) ==
  CASE t = "TEST" -> "test"
    [] t = "A" -> "a"
    [] t = "Curious" -> "curious"
    [] OTHER -> t

\* str.lower()
Lower(s) == [i \in 1..Len(s) |-> LowerTok(s[i])]

IsSpace(t) == t \in {SP, NL}

\* str.strip(): drop the leading and the trailing whitespace
RECURSIVE LStrip(_)
LStrip(s) == IF s # <<>> /\ IsSpace(Head(s)) THEN LStrip(Tail(s)) ELSE s

RECURSIVE RStrip(_)
RStrip(s) ==
  IF s # <<>> /\ IsSpace(s[Len(s)]) THEN RStrip(SubSeq(s, 1, Len(s) - 1)) ELSE s

Strip(s) == RStrip(LStrip(s))

\* index of the first occurrence of token t in s, 0 when there is none
FirstIdx(s, t) ==
  IF \E i \in 1..Len(s) : s[i] = t
    THEN CHOOSE i \in 1..Len(s) : s[i] = t /\ \A j \in 1..(i - 1) : s[j] # t
    ELSE 0

\* str.split(t): the list of the segments between the occurrences of t
RECURSIVE Split(_, _)
Split(s, t) ==
  LET i == FirstIdx(s, t) IN
    IF i = 0 THEN <<s>>
    ELSE <<SubSeq(s, 1, i - 1)>> \o Split(SubSeq(s, i + 1, Len(s)), t)

\* '\n'.join(frags)
RECURSIVE Join(_)
Join(frags) ==
  IF frags = <<>> THEN <<>>
  ELSE IF Len(frags) = 1 THEN frags[1]
  ELSE frags[1] \o <<NL>> \o Join(Tail(frags))

\* ------------------------------------------------------------ output parser
\* the parser, had it trimmed the segment it returns
ParseOutput_trims(raw) ==
  LET parts == Split(raw, PAD) IN
    IF Len(parts) < 2
      THEN [ok |-> FALSE, exc |-> "IndexError", val |-> <<>>]
      ELSE [ok |-> TRUE, exc |-> "", val |-> Strip(Split(parts[2], CLOSE)[1])]

\* the parser, had it taken the last segment (parts[-1]) and never raised
ParseOutput_last_part(raw) ==
  LET parts == Split(raw, PAD) IN
    [ok |-> TRUE, exc |-> "", val |-> Split(parts[Len(parts)], CLOSE)[1]]

\* tokenizer.decode(outputs[0]).split('<pad>')[1].split('</s')[0]
\* parts[1] of a one-element list raises IndexError.
ParseOutput(raw) ==
  LET parts == Split(raw, PAD) IN
    IF Len(parts) < 2
      THEN [ok |-> FALSE, exc |-> "IndexError", val |-> <<>>]
      ELSE [ok |-> TRUE, exc |-> "", val |-> Split(parts[2], CLOSE)[1]]

\* -------------------------------------------------------- prompt templates
Lit(x) == <<x>>

STATE_TEMPERATURE == 1
PERSON_INTENT_TEMPERATURE == 1
PERSON_INFERENCE_TEMPERATURE == 1

person_speech ==
  << Lit("person: Hey, have you heard about the latest advancements in space technology?"),
     Lit("person: I'm really interested in the concept of colonizing Mars."),
     Lit("person: Did you know that SpaceX has plans to send humans to Mars as soon as 2024?") >>

question_intent == << Lit("Q: What is the intent of the person speaking?") >>

question_inference == << Lit("Q: what kind of person is the person speaking?") >>

example_1_inferences ==
  person_speech \o question_inference \o << Lit("Answer: This person is: a scientist") >>

example_1_intent ==
  person_speech \o question_intent \o
  << Lit("Answer: The intent of the person is: to start conversation about space exploration and colonizing Mars") >>

\* input_text of get_persons_intent (the definition in force, the second one)
IntentPrompt(question_speech) ==
  Join(example_1_intent \o << Lit("\nEXAMPLE 2:") >> \o question_speech \o
       question_intent \o << Lit("Answer: The intent of this person is:") >>)

\* input_text of get_inference_about_person (the definition in force)
PersonPrompt(question_speech) ==
  Join(example_1_inferences \o << Lit("\nEXAMPLE 2:") >> \o question_speech \o
       question_inference \o << Lit("Answer: This person is:") >>)

\* input_text of build_state (the definition in force, the second one)
BuildStatePrompt(world_state, conversation) ==
  LET prompt == << Lit("Infer some more state about the preceding speaker. \"Person\" is speaking to a bot. Youre the bot.") >>
      question == << Lit("Q: What other qualities about the person we can infer?") >>
      answer_line == << Lit("So we already know that") \o world_state \o
                        Lit(" An additional thing we can infer from the conversation is that") >>
  IN Join(conversation \o prompt \o question \o answer_line)

\* input_text of get_thoughts_2
Thoughts2Prompt(conversation) ==
  LET prompt == << Lit("Person's speech") >>
      answer_line == << Lit("Random thoughts about the speech, that you, a sentient robot, could have:") >>
  IN Join(prompt \o conversation \o answer_line)

pre_convo ==
  << Lit("I'm a helpful, happy, sentient robot. This is the conversation of a human that they're having with me") >>

pre_thought ==
  << Lit("These are my thoughts about the preceding lines. I should use thoughts, when I generate a reasonable response.") >>

answer == << Lit("My response to the person should be:") >>

\* input_text of generate_response(thoughts, conversation)
ResponsePrompt(thoughts, conversation) ==
  Join(pre_convo \o conversation \o pre_thought \o thoughts \o answer)

\* generate_thots, line 351
WorldState(person_is, person_intent) ==
  Lit("this person is a ") \o person_is \o Lit(" and their intent is ") \o
  person_intent \o Lit(".")

\* extra_state_pretty, had it been trimmed but not lower-cased
ExtraStatePretty_no_lower(new_state) == Strip(new_state)

\* generate_thots, lines 353-355
IntentPretty(person_intent) == Lit("this person's intent is ") \o Strip(Lower(person_intent))

PersonIsPretty(person_is) == Lit("this person is a ") \o Strip(Lower(person_is))

ExtraStatePretty(new_state) == Strip(Lower(new_state))

\* ------------------------------------------------------------------ inputs
\* raw decoded outputs the generation service hands back
EchoTest == << PAD, SP, "TEST", SP, CLOSE, GT >>
NoPad == << "TEST", SP, CLOSE, GT >>
NoClose == << PAD, SP, "Curious" >>
HelloWorld == << PAD, SP, "hello", SP, "world", SP, CLOSE, GT, SP, "extra" >>

\* outputs offered to the concurrent requests of Spec, and to the two runs of SpecPair
MockRaws == { EchoTest, NoPad }
Raws == { EchoTest, NoPad, NoClose }

\* what one call of text_model.generate does: it raises, or returns a raw output of S
GenOutcomes(S) ==
  { [raises |-> TRUE, raw |-> <<>>] } \cup { [raises |-> FALSE, raw |-> x] : x \in S }

SpaceTravel == << Lit("person: I love space travel.") >>
MarsTalk == << Lit("person: Hi."), Lit("person: Tell me about Mars.") >>

Transcripts == { SpaceTravel, MarsTalk }

\* ------------------------------------------------------------------- state
VARIABLES
  phase,          \* "imported": module body has run; "serving": app.run / WSGI serves
  use_cuda,       \* os.getenv('USE_CUDA') is 'true'
  whisper_model,  \* module globals, "None" until load_model
  tokenizer,
  text_model,
  device,
  request,        \* generate_thots: the conversation_speech of each request's body
  pc,             \* generate_thots: where each request is
  frame,          \* generate_thots: the local variables of each request
  calls,          \* calls of text_model.generate each request has issued
  resps,          \* raw outputs text_model.generate has returned to each request
  reply,          \* what generate_thots returned to the client
  raised,         \* the exception that left generate_thots, "" if none
  ws_writes,      \* assignments build_state has made to world_state, per request
  t_pc,           \* transcribe: where each request is
  temp_dir,       \* transcribe: the local temp_dir, 0 is None
  t_ret,          \* transcribe: the value of the return statement that has run
  t_reply,        \* transcribe: what the handler returned to the client
  t_exc,          \* transcribe: the exception caught by "except Exception", "" if none
  t_rm,           \* transcribe: outcome of shutil.rmtree: "none", "ok", "failed"
  fs,             \* the temporary directories that exist
  made,           \* directories mkdtemp has created so far
  p_raw,          \* output parser alone: its input
  p_res,          \* output parser alone: its result
  p_pc,
  k_pc,           \* health_ready: where each request is
  k_seen,         \* health_ready: the globals and the memory reading the request met
  k_reply         \* health_ready: what the handler returned to the client

gvars == << phase, use_cuda, whisper_model, tokenizer, text_model, device >>
hvars == << request, pc, frame, calls, resps, reply, raised, ws_writes >>
tvars == << t_pc, temp_dir, t_ret, t_reply, t_exc, t_rm, fs, made >>
pvars == << p_raw, p_res, p_pc >>
kvars == << k_pc, k_seen, k_reply >>
vars == << phase, use_cuda, whisper_model, tokenizer, text_model, device,
           request, pc, frame, calls, resps, reply, raised, ws_writes,
           t_pc, temp_dir, t_ret, t_reply, t_exc, t_rm, fs, made,
           p_raw, p_res, p_pc,
           k_pc, k_seen, k_reply >>

EmptyFrame ==
  [ question_speech |-> <<>>, person_intent |-> <<>>, person_is |-> <<>>,
    world_state |-> <<>>, new_state |-> <<>>, intent_pretty |-> <<>>,
    person_is_pretty |-> <<>>, extra_state_pretty |-> <<>>, thoughts |-> <<>>,
    response |-> <<>> ]

NoReply ==
  [ status |-> 0, intent |-> <<>>, person_is |-> <<>>, extra_state |-> <<>>,
    thoughts |-> <<>>, response |-> <<>> ]

\* an exception leaves the view function: the framework answers 500, no record
ErrorReply == [ NoReply EXCEPT !.status = 500 ]

InitGlobals ==
  /\ phase = "imported"
  /\ use_cuda \in BOOLEAN
  /\ whisper_model = "None"
  /\ tokenizer = "None"
  /\ text_model = "None"
  /\ device = "None"

InitThots ==
  /\ request = [r \in Reqs |-> <<>>]
  /\ pc = [r \in Reqs |-> "idle"]
  /\ frame = [r \in Reqs |-> EmptyFrame]
  /\ calls = [r \in Reqs |-> <<>>]
  /\ resps = [r \in Reqs |-> <<>>]
  /\ reply = [r \in Reqs |-> NoReply]
  /\ raised = [r \in Reqs |-> ""]
  /\ ws_writes = [r \in Reqs |-> 0]

NoTranscribeReply == [ status |-> 0, body |-> "" ]

InitTranscribe ==
  /\ t_pc = [r \in Reqs |-> "idle"]
  /\ temp_dir = [r \in Reqs |-> 0]
  /\ t_ret = [r \in Reqs |-> NoTranscribeReply]
  /\ t_reply = [r \in Reqs |-> NoTranscribeReply]
  /\ t_exc = [r \in Reqs |-> ""]
  /\ t_rm = [r \in Reqs |-> "none"]
  /\ fs = {}
  /\ made = 0

NoHealthReply ==
  [ code |-> 0, status |-> "", whisper_model |-> "unknown", text_model |-> "unknown",
    tokenizer |-> "unknown", memory |-> "unknown", memory_status |-> "" ]

NothingSeen ==
  [ whisper_model |-> "None", text_model |-> "None", tokenizer |-> "None",
    read_ok |-> FALSE, percent |-> 0 ]

InitHealth ==
  /\ k_pc = [r \in Reqs |-> "idle"]
  /\ k_seen = [r \in Reqs |-> NothingSeen]
  /\ k_reply = [r \in Reqs |-> NoHealthReply]

InitParserIdle ==
  /\ p_raw = <<>>
  /\ p_res = [ok |-> FALSE, exc |-> "", val |-> <<>>]
  /\ p_pc = "off"

\* --------------------------------------------------------- model handles
\* get_device(): the value of the global device after the call
get_device(d, cuda) ==
  IF d = "None" THEN (IF cuda THEN "cuda" ELSE "cpu") ELSE d

\* load_model(), run by __main__ before app.run
load_model ==
  /\ phase = "imported"
  /\ whisper_model = "None"
  /\ device' = get_device(device, use_cuda)
  /\ whisper_model' = "whisper"
  /\ tokenizer' = "T5Tokenizer"
  /\ text_model' = "T5ForConditionalGeneration"
  /\ UNCHANGED << phase, use_cuda >>
  /\ UNCHANGED << hvars, tvars, pvars, kvars >>

\* app.run(...) of __main__, or a WSGI server that imported the module
app_run ==
  /\ phase = "imported"
  /\ phase' = "serving"
  /\ UNCHANGED << use_cuda, whisper_model, tokenizer, text_model, device >>
  /\ UNCHANGED << hvars, tvars, pvars, kvars >>

\* ---------------------------------------------------------- generate_thots
\* One generation step, lines "input_ids = tokenizer(...).input_ids.to(get_device())",
\* "outputs = text_model.generate(...)" and "tokenizer.decode(...).split(...)":
\* called: text_model.generate was invoked; ok: a value was parsed.
Generate(out) ==
  IF tokenizer = "None"
    THEN [called |-> FALSE, ok |-> FALSE, exc |-> "TypeError", val |-> <<>>]
  ELSE IF text_model = "None"
    THEN [called |-> FALSE, ok |-> FALSE, exc |-> "AttributeError", val |-> <<>>]
  ELSE IF out.raises
    THEN [called |-> TRUE, ok |-> FALSE, exc |-> "RuntimeError", val |-> <<>>]
  ELSE LET p == ParseOutput(out.raw) IN
    [called |-> TRUE, ok |-> p.ok, exc |-> p.exc, val |-> p.val]

\* the bookkeeping every step shares: the call and its output are recorded, the
\* global device goes through get_device(), and an exception unwinds the handler
StepCommon(r, step, prompt, max_length, temperature, out, g) ==
  /\ calls' = IF g.called
                THEN [calls EXCEPT ![r] = Append(@,
                        [step |-> step, prompt |-> prompt,
                         max_length |-> max_length, temperature |-> temperature])]
                ELSE calls
  /\ resps' = IF g.called /\ ~out.raises
                THEN [resps EXCEPT ![r] = Append(@, out.raw)]
                ELSE resps
  /\ device' = IF tokenizer = "None" THEN device ELSE get_device(device, use_cuda)
  /\ raised' = IF g.ok THEN raised ELSE [raised EXCEPT ![r] = g.exc]
  /\ UNCHANGED << phase, use_cuda, whisper_model, tokenizer, text_model, request >>
  /\ UNCHANGED << tvars, pvars, kvars >>

\* the exception propagates out of generate_thots: locals are gone, no record
Abort(r) ==
  /\ pc' = [pc EXCEPT ![r] = "failed"]
  /\ frame' = [frame EXCEPT ![r] = EmptyFrame]
  /\ reply' = [reply EXCEPT ![r] = ErrorReply]

\* line 348: question_speech = request.get_json()['conversation_speech']
receive(r, q) ==
  /\ phase = "serving"
  /\ pc[r] = "idle"
  /\ request' = [request EXCEPT ![r] = q]
  /\ pc' = [pc EXCEPT ![r] = "intent"]
  /\ frame' = [frame EXCEPT ![r].question_speech = q]
  /\ UNCHANGED << calls, resps, reply, raised, ws_writes >>
  /\ UNCHANGED << gvars, tvars, pvars, kvars >>

\* line 348 when the body has no 'conversation_speech'
receive_bad(r) ==
  /\ phase = "serving"
  /\ pc[r] = "idle"
  /\ Abort(r)
  /\ raised' = [raised EXCEPT ![r] = "KeyError"]
  /\ UNCHANGED << request, calls, resps, ws_writes >>
  /\ UNCHANGED << gvars, tvars, pvars, kvars >>

\* get_persons_intent, had its success led straight to the world-state step
get_persons_intent_skips_person(r, out) ==
  /\ pc[r] = "intent"
  /\ LET g == Generate(out) IN
       /\ StepCommon(r, "intent", IntentPrompt(frame[r].question_speech), 2000,
                     PERSON_INTENT_TEMPERATURE, out, g)
       /\ IF g.ok
            THEN /\ pc' = [pc EXCEPT ![r] = "state"]
                 /\ frame' = [frame EXCEPT ![r].person_intent = g.val]
                 /\ UNCHANGED reply
            ELSE Abort(r)
  /\ UNCHANGED ws_writes

\* line 349: person_intent = get_persons_intent(question_speech)
get_persons_intent(r, out) ==
  /\ pc[r] = "intent"
  /\ LET g == Generate(out) IN
       /\ StepCommon(r, "intent", IntentPrompt(frame[r].question_speech), 2000,
                     PERSON_INTENT_TEMPERATURE, out, g)
       /\ IF g.ok
            THEN /\ pc' = [pc EXCEPT ![r] = "person"]
                 /\ frame' = [frame EXCEPT ![r].person_intent = g.val]
                 /\ UNCHANGED reply
            ELSE Abort(r)
  /\ UNCHANGED ws_writes

\* get_inference_about_person, had a failure been swallowed and the pipeline gone on
get_inference_about_person_swallows(r, out) ==
  /\ pc[r] = "person"
  /\ LET g == Generate(out) IN
       /\ StepCommon(r, "person", PersonPrompt(frame[r].question_speech), 2000,
                     PERSON_INFERENCE_TEMPERATURE, out, g)
       /\ pc' = [pc EXCEPT ![r] = "state"]
       /\ frame' = [frame EXCEPT ![r].person_is = g.val]
       /\ UNCHANGED reply
  /\ UNCHANGED ws_writes

\* line 350: person_is = get_inference_about_person(question_speech)
get_inference_about_person(r, out) ==
  /\ pc[r] = "person"
  /\ LET g == Generate(out) IN
       /\ StepCommon(r, "person", PersonPrompt(frame[r].question_speech), 2000,
                     PERSON_INFERENCE_TEMPERATURE, out, g)
       /\ IF g.ok
            THEN /\ pc' = [pc EXCEPT ![r] = "state"]
                 /\ frame' = [frame EXCEPT ![r].person_is = g.val]
                 /\ UNCHANGED reply
            ELSE Abort(r)
  /\ UNCHANGED ws_writes

\* build_state, had world_state been a module global shared by the requests
build_state_global(r, out) ==
  /\ pc[r] = "state"
  /\ LET world_state == WorldState(frame[r].person_is, frame[r].person_intent)
         g == Generate(out) IN
       /\ StepCommon(r, "state", BuildStatePrompt(world_state, frame[r].question_speech),
                     2000, STATE_TEMPERATURE, out, g)
       /\ IF g.ok
            THEN /\ pc' = [pc EXCEPT ![r] = "thoughts"]
                 /\ frame' = [q \in Reqs |->
                      IF q = r
                        THEN [frame[q] EXCEPT !.world_state = world_state, !.new_state = g.val]
                        ELSE [frame[q] EXCEPT !.world_state = world_state]]
                 /\ ws_writes' = [ws_writes EXCEPT ![r] = @ + 1]
                 /\ UNCHANGED reply
            ELSE Abort(r) /\ UNCHANGED ws_writes

\* lines 351-352: world_state = ...; new_state = build_state(world_state, question_speech)
build_state(r, out) ==
  /\ pc[r] = "state"
  /\ LET world_state == WorldState(frame[r].person_is, frame[r].person_intent)
         g == Generate(out) IN
       /\ StepCommon(r, "state", BuildStatePrompt(world_state, frame[r].question_speech),
                     2000, STATE_TEMPERATURE, out, g)
       /\ IF g.ok
            THEN /\ pc' = [pc EXCEPT ![r] = "thoughts"]
                 /\ frame' = [frame EXCEPT ![r].world_state = world_state,
                                           ![r].new_state = g.val]
                 /\ ws_writes' = [ws_writes EXCEPT ![r] = @ + 1]
                 /\ UNCHANGED reply
            ELSE Abort(r) /\ UNCHANGED ws_writes

\* lines 353-356: the three *_pretty values, then
\* thoughts = get_thoughts_2(question_speech).lower().strip()
get_thoughts_2(r, out) ==
  /\ pc[r] = "thoughts"
  /\ LET g == Generate(out) IN
       /\ StepCommon(r, "thoughts", Thoughts2Prompt(frame[r].question_speech), 50, 1, out, g)
       /\ IF g.ok
            THEN /\ pc' = [pc EXCEPT ![r] = "response"]
                 /\ frame' = [frame EXCEPT
                      ![r].intent_pretty = IntentPretty(frame[r].person_intent),
                      ![r].person_is_pretty = PersonIsPretty(frame[r].person_is),
                      ![r].extra_state_pretty = ExtraStatePretty(frame[r].new_state),
                      ![r].thoughts = Strip(Lower(g.val))]
                 /\ UNCHANGED reply
            ELSE Abort(r)
  /\ UNCHANGED ws_writes

\* the arguments of the call on line 357, generate_response(thoughts, conversation):
\* question_speech goes first, the list of the four outputs second
ResponseArgs(f) ==
  [ thoughts |-> f.question_speech,
    conversation |-> << f.intent_pretty, f.person_is_pretty,
                        f.extra_state_pretty, f.thoughts >> ]

\* generate_response, had the four outputs been read from one shared place
\* (the frame of request 1) instead of the request's own locals
generate_response_shared(r, out) ==
  /\ pc[r] = "response"
  /\ LET a == ResponseArgs([frame[1] EXCEPT !.question_speech = frame[r].question_speech])
         g == Generate(out) IN
       /\ StepCommon(r, "response", ResponsePrompt(a.thoughts, a.conversation), 2000,
                     PERSON_INFERENCE_TEMPERATURE, out, g)
       /\ IF g.ok
            THEN /\ pc' = [pc EXCEPT ![r] = "done"]
                 /\ reply' = [reply EXCEPT ![r] =
                      [ status |-> 200,
                        intent |-> a.conversation[1],
                        person_is |-> a.conversation[2],
                        extra_state |-> a.conversation[3],
                        thoughts |-> a.conversation[4],
                        response |-> g.val ]]
                 /\ frame' = [frame EXCEPT ![r] = EmptyFrame]
            ELSE Abort(r)
  /\ UNCHANGED ws_writes

\* lines 357-365: response = generate_response(...); return jsonify(response_data)
generate_response(r, out) ==
  /\ pc[r] = "response"
  /\ LET a == ResponseArgs(frame[r])
         g == Generate(out) IN
       /\ StepCommon(r, "response", ResponsePrompt(a.thoughts, a.conversation), 2000,
                     PERSON_INFERENCE_TEMPERATURE, out, g)
       /\ IF g.ok
            THEN /\ pc' = [pc EXCEPT ![r] = "done"]
                 /\ reply' = [reply EXCEPT ![r] =
                      [ status |-> 200,
                        intent |-> frame[r].intent_pretty,
                        person_is |-> frame[r].person_is_pretty,
                        extra_state |-> frame[r].extra_state_pretty,
                        thoughts |-> frame[r].thoughts,
                        response |-> g.val ]]
                 /\ frame' = [frame EXCEPT ![r] = EmptyFrame]
            ELSE Abort(r)
  /\ UNCHANGED ws_writes

Init ==
  /\ InitGlobals
  /\ InitThots
  /\ InitTranscribe
  /\ InitParserIdle
  /\ InitHealth

\* the requests of Spec: any number of concurrent request contexts
Next ==
  \/ load_model
  \/ app_run
  \/ \E r \in Reqs, q \in Transcripts : receive(r, q)
  \/ \E r \in Reqs : receive_bad(r)
  \/ \E r \in Reqs, out \in GenOutcomes(MockRaws) : get_persons_intent(r, out)
  \/ \E r \in Reqs, out \in GenOutcomes(MockRaws) : get_inference_about_person(r, out)
  \/ \E r \in Reqs, out \in GenOutcomes(MockRaws) : build_state(r, out)
  \/ \E r \in Reqs, out \in GenOutcomes(MockRaws) : get_thoughts_2(r, out)
  \/ \E r \in Reqs, out \in GenOutcomes(MockRaws) : generate_response(r, out)

Spec == Init /\ [][Next]_vars

\* Two runs of the pipeline side by side, on every output of Raws: the runs that
\* a statement about "two runs" or about one request's result compares.
Pair == { 1, 2 }

NextPair ==
  \/ load_model
  \/ app_run
  \/ \E r \in Pair, q \in Transcripts : receive(r, q)
  \/ \E r \in Pair : receive_bad(r)
  \/ \E r \in Pair, out \in GenOutcomes(Raws) : get_persons_intent(r, out)
  \/ \E r \in Pair, out \in GenOutcomes(Raws) : get_inference_about_person(r, out)
  \/ \E r \in Pair, out \in GenOutcomes(Raws) : build_state(r, out)
  \/ \E r \in Pair, out \in GenOutcomes(Raws) : get_thoughts_2(r, out)
  \/ \E r \in Pair, out \in GenOutcomes(Raws) : generate_response(r, out)

SpecPair == Init /\ [][NextPair]_vars

\* --------------------------------------------------------------- transcribe
\* "except Exception as e": return jsonify({'error': str(e)}), 500
Caught(r, exc) ==
  /\ t_exc' = [t_exc EXCEPT ![r] = exc]
  /\ t_ret' = [t_ret EXCEPT ![r] = [status |-> 500, body |-> "error"]]
  /\ t_pc' = [t_pc EXCEPT ![r] = "finally"]

\* lines 76-80: temp_dir = None; temp_dir = tempfile.mkdtemp()
mkdtemp(r, ok) ==
  /\ phase = "serving"
  /\ t_pc[r] = "idle"
  /\ IF ok
       THEN /\ made' = made + 1
            /\ fs' = fs \cup { made + 1 }
            /\ temp_dir' = [temp_dir EXCEPT ![r] = made + 1]
            /\ t_pc' = [t_pc EXCEPT ![r] = "files"]
            /\ UNCHANGED << t_exc, t_ret >>
       ELSE /\ Caught(r, "OSError")
            /\ UNCHANGED << made, fs, temp_dir >>
  /\ UNCHANGED << t_reply, t_rm >>
  /\ UNCHANGED << gvars, hvars, pvars, kvars >>

\* line 83: wav_file = request.files['audio_data']
get_upload(r, present) ==
  /\ t_pc[r] = "files"
  /\ IF present
       THEN /\ t_pc' = [t_pc EXCEPT ![r] = "save"]
            /\ UNCHANGED << t_exc, t_ret >>
       ELSE Caught(r, "KeyError")
  /\ UNCHANGED << temp_dir, t_reply, t_rm, fs, made >>
  /\ UNCHANGED << gvars, hvars, pvars, kvars >>

\* line 84: wav_file.save(save_path)
save_upload(r, ok) ==
  /\ t_pc[r] = "save"
  /\ IF ok
       THEN /\ t_pc' = [t_pc EXCEPT ![r] = "model"]
            /\ UNCHANGED << t_exc, t_ret >>
       ELSE Caught(r, "OSError")
  /\ UNCHANGED << temp_dir, t_reply, t_rm, fs, made >>
  /\ UNCHANGED << gvars, hvars, pvars, kvars >>

\* lines 87-91: result = whisper_model.transcribe(...); return transcription_text
run_whisper(r, ok) ==
  /\ t_pc[r] = "model"
  /\ IF whisper_model = "None"
       THEN Caught(r, "AttributeError")
       ELSE IF ok
         THEN /\ t_ret' = [t_ret EXCEPT ![r] = [status |-> 200, body |-> "text"]]
              /\ t_pc' = [t_pc EXCEPT ![r] = "finally"]
              /\ UNCHANGED t_exc
         ELSE Caught(r, "RuntimeError")
  /\ UNCHANGED << temp_dir, t_reply, t_rm, fs, made >>
  /\ UNCHANGED << gvars, hvars, pvars, kvars >>

\* the finally block, had the cleanup stood at the end of the try body instead
cleanup_on_success_only(r, rm_ok) ==
  /\ t_pc[r] = "finally"
  /\ IF t_exc[r] = "" /\ temp_dir[r] # 0 /\ temp_dir[r] \in fs
       THEN IF rm_ok
         THEN fs' = fs \ { temp_dir[r] } /\ t_rm' = [t_rm EXCEPT ![r] = "ok"]
         ELSE fs' = fs /\ t_rm' = [t_rm EXCEPT ![r] = "failed"]
       ELSE UNCHANGED << fs, t_rm >>
  /\ t_reply' = [t_reply EXCEPT ![r] = t_ret[r]]
  /\ t_pc' = [t_pc EXCEPT ![r] = "returned"]
  /\ UNCHANGED << temp_dir, t_ret, t_exc, made >>
  /\ UNCHANGED << gvars, hvars, pvars, kvars >>

\* lines 97-104: finally: if temp_dir and os.path.exists(temp_dir): shutil.rmtree,
\* whose own failure is caught and printed; then the handler returns
cleanup(r, rm_ok) ==
  /\ t_pc[r] = "finally"
  /\ IF temp_dir[r] # 0 /\ temp_dir[r] \in fs
       THEN IF rm_ok
         THEN fs' = fs \ { temp_dir[r] } /\ t_rm' = [t_rm EXCEPT ![r] = "ok"]
         ELSE fs' = fs /\ t_rm' = [t_rm EXCEPT ![r] = "failed"]
       ELSE UNCHANGED << fs, t_rm >>
  /\ t_reply' = [t_reply EXCEPT ![r] = t_ret[r]]
  /\ t_pc' = [t_pc EXCEPT ![r] = "returned"]
  /\ UNCHANGED << temp_dir, t_ret, t_exc, made >>
  /\ UNCHANGED << gvars, hvars, pvars, kvars >>

NextTranscribe ==
  \/ load_model
  \/ app_run
  \/ \E r \in Reqs, ok \in BOOLEAN : mkdtemp(r, ok)
  \/ \E r \in Reqs, present \in BOOLEAN : get_upload(r, present)
  \/ \E r \in Reqs, ok \in BOOLEAN : save_upload(r, ok)
  \/ \E r \in Reqs, ok \in BOOLEAN : run_whisper(r, ok)
  \/ \E r \in Reqs, rm_ok \in BOOLEAN : cleanup(r, rm_ok)

SpecTranscribe == Init /\ [][NextTranscribe]_vars

\* ------------------------------------------------- the output parser alone
ParseAlphabet == { PAD, CLOSE, GT, SP, "a" }

ParseInputs ==
  UNION { [1..n -> ParseAlphabet] : n \in 0..MaxLen } \cup { HelloWorld, EchoTest }

InitParse ==
  /\ InitGlobals
  /\ InitThots
  /\ InitTranscribe
  /\ InitHealth
  /\ p_raw \in ParseInputs
  /\ p_res = [ok |-> FALSE, exc |-> "", val |-> <<>>]
  /\ p_pc = "start"

\* tokenizer.decode(outputs[0]).split('<pad>')[1].split('</s')[0] on p_raw
parse ==
  /\ p_pc = "start"
  /\ p_res' = ParseOutput(p_raw)
  /\ p_pc' = IF ParseOutput(p_raw).ok THEN "parsed" ELSE "raised"
  /\ UNCHANGED p_raw
  /\ UNCHANGED << gvars, hvars, tvars, kvars >>

NextParse == parse

SpecParse == InitParse /\ [][NextParse]_vars

\* ------------------------------------------------------------- health_ready
\* load_model() line by line, as it runs in a thread of the embedding process
\* while the readiness endpoint is already polled.
\* lines 59-62: device = get_device(); whisper_model = whisper.load_model(...)
load_whisper ==
  /\ whisper_model = "None"
  /\ device' = get_device(device, use_cuda)
  /\ whisper_model' = "whisper"
  /\ UNCHANGED << phase, use_cuda, tokenizer, text_model >>
  /\ UNCHANGED << hvars, tvars, pvars, kvars >>

\* line 65: tokenizer = T5Tokenizer.from_pretrained(flan_model_name)
load_tokenizer ==
  /\ whisper_model # "None"
  /\ tokenizer = "None"
  /\ tokenizer' = "T5Tokenizer"
  /\ UNCHANGED << phase, use_cuda, whisper_model, text_model, device >>
  /\ UNCHANGED << hvars, tvars, pvars, kvars >>

\* line 66: text_model = T5ForConditionalGeneration.from_pretrained(...)
load_text_model ==
  /\ tokenizer # "None"
  /\ text_model = "None"
  /\ text_model' = "T5ForConditionalGeneration"
  /\ UNCHANGED << phase, use_cuda, whisper_model, tokenizer, device >>
  /\ UNCHANGED << hvars, tvars, pvars, kvars >>

\* memory.percent of psutil.virtual_memory(), in tenths of a percent
MemPercents == { 0, 800, 801, 900, 901, 1000 }

\* health_ready, had the overall status been set before the memory check, so
\* that a critical memory reading overwrites 'not_ready' with 'degraded'
health_checks_memory_last(wm, tm, tk, read_ok, percent) ==
  LET all_ready == wm # "None" /\ tm # "None" /\ tk # "None"
      critical == read_ok /\ percent > 900
      status == IF critical THEN "degraded"
                ELSE IF ~all_ready THEN "not_ready" ELSE "ok"
  IN [ code |-> IF status = "ok" THEN 200 ELSE 503,
       status |-> status,
       whisper_model |-> IF wm # "None" THEN "ok" ELSE "not_loaded",
       text_model |-> IF tm # "None" THEN "ok" ELSE "not_loaded",
       tokenizer |-> IF tk # "None" THEN "ok" ELSE "not_loaded",
       memory |-> IF read_ok THEN "percent" ELSE "error",
       memory_status |-> IF ~read_ok THEN ""
                         ELSE IF percent > 900 THEN "critical"
                         ELSE IF percent > 800 THEN "warning" ELSE "ok" ]

\* lines 144-206: the checks dict and the status code health_ready returns, from
\* the three globals and from the memory reading (read_ok: psutil did not raise)
health_checks(wm, tm, tk, read_ok, percent) ==
  LET all_ready == wm # "None" /\ tm # "None" /\ tk # "None"
      \* lines 181-197
      status == IF read_ok /\ percent > 900 THEN "degraded" ELSE "ok"
      memory_status == IF ~read_ok THEN ""
                       ELSE IF percent > 900 THEN "critical"
                       ELSE IF percent > 800 THEN "warning" ELSE "ok"
      checks == [ whisper_model |-> IF wm # "None" THEN "ok" ELSE "not_loaded",
                  text_model |-> IF tm # "None" THEN "ok" ELSE "not_loaded",
                  tokenizer |-> IF tk # "None" THEN "ok" ELSE "not_loaded",
                  memory |-> IF read_ok THEN "percent" ELSE "error",
                  memory_status |-> memory_status ]
      \* lines 199-206
      final == IF ~all_ready THEN [ code |-> 503, status |-> "not_ready" ]
               ELSE IF status = "degraded" THEN [ code |-> 503, status |-> status ]
               ELSE [ code |-> 200, status |-> status ]
  IN [ code |-> final.code, status |-> final.status,
       whisper_model |-> checks.whisper_model, text_model |-> checks.text_model,
       tokenizer |-> checks.tokenizer, memory |-> checks.memory,
       memory_status |-> checks.memory_status ]

\* GET /health/ready: percent is the memory usage at that moment, read_ok says
\* whether psutil.virtual_memory() returned it or raised
health_ready(r, read_ok, percent) ==
  /\ phase = "serving"
  /\ k_pc[r] = "idle"
  /\ k_seen' = [k_seen EXCEPT ![r] =
       [ whisper_model |-> whisper_model, text_model |-> text_model,
         tokenizer |-> tokenizer, read_ok |-> read_ok, percent |-> percent ]]
  /\ k_reply' = [k_reply EXCEPT ![r] =
       health_checks(whisper_model, text_model, tokenizer, read_ok, percent)]
  /\ k_pc' = [k_pc EXCEPT ![r] = "returned"]
  /\ UNCHANGED << gvars, hvars, tvars, pvars >>

NextHealth ==
  \/ app_run
  \/ load_whisper
  \/ load_tokenizer
  \/ load_text_model
  \/ \E r \in Reqs, read_ok \in BOOLEAN, percent \in MemPercents :
       health_ready(r, read_ok, percent)

SpecHealth == Init /\ [][NextHealth]_vars

\* ================================================================== claims
StepNames == << "intent", "person", "state", "thoughts", "response" >>

HasPad(raw) == \E i \in 1..Len(raw) : raw[i] = PAD

HasClose(raw) == \E i \in 1..Len(raw) : raw[i] = CLOSE

\* C1: a step whose generation call raises, or whose output cannot be parsed,
\* aborts the pipeline at that step: that call is the request's last one (no
\* later step calls the service, the step is not tried again), the exception
\* leaves the handler, and the client gets no record, not even a partial one.
C1_FailFast ==
  \A r \in Reqs :
    LET nc == Len(calls[r])
        nr == Len(resps[r])
    IN /\ nc > nr => /\ pc[r] = "failed"
                     /\ nc = nr + 1
                     /\ raised[r] = "RuntimeError"
       /\ (\E i \in 1..nr : ~HasPad(resps[r][i])) =>
            /\ pc[r] = "failed"
            /\ nc = nr
            /\ \A i \in 1..nr : ~HasPad(resps[r][i]) <=> i = nr
            /\ raised[r] = "IndexError"
       /\ raised[r] # "" => pc[r] = "failed"
       /\ pc[r] = "failed" => /\ reply[r] = ErrorReply
                              /\ frame[r] = EmptyFrame

\* a request whose world-state step got an output without the padding marker,
\* and another whose thought step's generation call raised
C1_Witness ==
  /\ \E r \in Reqs : /\ pc[r] = "failed"
                     /\ raised[r] = "IndexError"
                     /\ Len(calls[r]) = 3
  /\ \E r \in Reqs : /\ pc[r] = "failed"
                     /\ raised[r] = "RuntimeError"
                     /\ Len(calls[r]) = 4

\* C2: the calls a request makes to the generation service are, in order, a
\* prefix of intent, person, state, thoughts, response, one call per step; every
\* call but the last has returned, so the world-state call comes after the intent
\* and the person calls have returned; a completed request has made five calls.
C2_CallOrder ==
  \A r \in Reqs :
    LET nc == Len(calls[r])
        nr == Len(resps[r])
    IN /\ nc <= Len(StepNames)
       /\ \A i \in 1..nc : calls[r][i].step = StepNames[i]
       /\ nr >= nc - 1
       /\ \A i \in 1..nc : calls[r][i].step = "state" => (i = 3 /\ nr >= 2)
       /\ pc[r] = "done" => nc = 5 /\ nr = 5

\* one request has completed, another has just issued its world-state call
C2_Witness ==
  /\ \E r \in Reqs : pc[r] = "done" /\ Len(calls[r]) = 5
  /\ \E r \in Reqs : pc[r] = "thoughts" /\ Len(calls[r]) = 3

\* the text after the first padding marker
AfterPad(raw) == SubSeq(raw, FirstIdx(raw, PAD) + 1, Len(raw))

\* v is the part of rest before its first token of stops, all of rest if it has none
IsLeadingSegment(v, rest, stops) ==
  \E n \in 0..Len(rest) :
    /\ v = SubSeq(rest, 1, n)
    /\ \A i \in 1..n : rest[i] \notin stops
    /\ n = Len(rest) \/ rest[n + 1] \in stops

\* the step that got the i-th output of request r failed in parsing it
ParsingFailedAt(r, i) ==
  /\ i = Len(resps[r])
  /\ Len(calls[r]) = Len(resps[r])
  /\ pc[r] = "failed"
  /\ raised[r] = "IndexError"

\* C3 (as claimed): an output without the padding marker makes the parser report
\* a malformed-output error of its own, not an index-out-of-range fault.
C3_MalformedOutputError ==
  (p_pc # "start" /\ ~HasPad(p_raw)) =>
     /\ p_pc = "raised"
     /\ p_res.exc # "IndexError"

\* C4 (as claimed): a step whose output lacks the padding marker or the closing
\* marker fails in parsing; no value is parsed from such an output.
C4_BothMarkersRequired ==
  \A r \in Reqs : \A i \in 1..Len(resps[r]) :
    (~HasPad(resps[r][i]) \/ ~HasClose(resps[r][i])) => ParsingFailedAt(r, i)

\* C4 (amended): a step fails in parsing exactly when its output lacks the
\* padding marker; an output that has the padding marker but no closing marker
\* yields the whole text after the first padding marker up to the next one.
C4_PadRequired ==
  \A r \in Reqs :
    /\ \A i \in 1..Len(resps[r]) : ~HasPad(resps[r][i]) <=> ParsingFailedAt(r, i)
    /\ (pc[r] = "person" /\ ~HasClose(resps[r][1])) =>
          IsLeadingSegment(frame[r].person_intent, AfterPad(resps[r][1]), { PAD })

\* one request parsed a value out of an output with no closing marker while
\* another failed on an output with no padding marker
C4_Witness ==
  /\ \E r \in Reqs : pc[r] = "person" /\ resps[r] = << NoClose >>
  /\ \E r \in Reqs : ParsingFailedAt(r, 2) /\ resps[r][2] = NoPad

\* index in s of the first "</s>", 0 when there is none
FirstClosingMarker(s) ==
  LET at(i) == i < Len(s) /\ s[i] = CLOSE /\ s[i + 1] = GT IN
    IF \E i \in 1..Len(s) : at(i)
      THEN CHOOSE i \in 1..Len(s) : at(i) /\ \A j \in 1..(i - 1) : ~at(j)
      ELSE 0

\* C5 (as claimed): every output with a padding marker parses, to the text
\* between the first padding marker and the first "</s>" after it, trimmed.
C5_TrimmedBetweenMarkers ==
  (p_pc # "start" /\ HasPad(p_raw)) =>
     /\ p_pc = "parsed"
     /\ FirstClosingMarker(AfterPad(p_raw)) # 0 =>
          p_res.val = Strip(SubSeq(AfterPad(p_raw), 1,
                                   FirstClosingMarker(AfterPad(p_raw)) - 1))

\* C5 (amended): every output with a padding marker parses, to the text after
\* the first padding marker up to the first following "</s" or "<pad>" (to the
\* end if there is none), untrimmed: "<pad> hello world </s> extra" gives
\* " hello world ".
C5_UntrimmedSegment ==
  (p_pc # "start" /\ HasPad(p_raw)) =>
     /\ p_pc = "parsed"
     /\ IsLeadingSegment(p_res.val, AfterPad(p_raw), { PAD, CLOSE })
     /\ p_raw = HelloWorld => p_res.val = << SP, "hello", SP, "world", SP >>

C5_Witness == p_pc = "parsed" /\ p_raw = HelloWorld

\* the end-to-end scenario: the transcript of C6, and "<pad> TEST </s>" five times
EchoScenario(r) ==
  /\ pc[r] = "done"
  /\ request[r] = SpaceTravel
  /\ resps[r] = << EchoTest, EchoTest, EchoTest, EchoTest, EchoTest >>

\* C6 (as claimed): in the end-to-end scenario all five fields are "test".
C6_AllFieldsTest ==
  \A r \in Reqs : EchoScenario(r) =>
    /\ reply[r].intent = << "test" >>
    /\ reply[r].person_is = << "test" >>
    /\ reply[r].extra_state = << "test" >>
    /\ reply[r].thoughts = << "test" >>
    /\ reply[r].response = << "test" >>

\* C6 (amended): in the end-to-end scenario extra_state and thoughts are "test",
\* intent is "this person's intent is test", person_is is "this person is a test",
\* and response is " TEST ", neither trimmed nor lower-cased.
C6_EchoResult ==
  \A r \in Reqs : EchoScenario(r) =>
    /\ reply[r].status = 200
    /\ reply[r].intent = << "this person's intent is ", "test" >>
    /\ reply[r].person_is = << "this person is a ", "test" >>
    /\ reply[r].extra_state = << "test" >>
    /\ reply[r].thoughts = << "test" >>
    /\ reply[r].response = << SP, "TEST", SP >>

C6_Witness == \E r \in Reqs : EchoScenario(r)

\* C7: two runs that got the same transcript and the same outputs from the
\* generation service, and stand at the same place, have sent the same prompts
\* and hold the same locals and the same result.
C7_Determinism ==
  \A r1, r2 \in Pair :
    (request[r1] = request[r2] /\ resps[r1] = resps[r2] /\ pc[r1] = pc[r2]) =>
       /\ calls[r1] = calls[r2]
       /\ frame[r1] = frame[r2]
       /\ reply[r1] = reply[r2]

\* two completed runs of the same transcript and the same mixed outputs
C7_Witness ==
  /\ pc[1] = "done" /\ pc[2] = "done"
  /\ request[1] = MarsTalk /\ request[2] = MarsTalk
  /\ resps[1] = << EchoTest, NoClose, NoClose, EchoTest, NoClose >>
  /\ resps[2] = resps[1]

\* C9 (as claimed): the prompt of the response step is the framing line, the
\* transcript, the thoughts framing line, the four outputs (intent, person,
\* state, thoughts) and the final line, in this order.
C9_ResponsePrompt ==
  \A r \in Reqs : pc[r] = "done" =>
    calls[r][5].prompt =
      Join(pre_convo \o request[r] \o pre_thought \o
           << reply[r].intent, reply[r].person_is, reply[r].extra_state,
              reply[r].thoughts >> \o answer)

\* after a step, what the locals of request r hold is computed from its own
\* transcript and from the outputs its own calls returned
OwnData(r) ==
  LET val(i) == ParseOutput(resps'[r][i]).val
      past(S) == pc'[r] \in S
  IN /\ past({ "intent", "person", "state", "thoughts", "response" }) =>
          frame'[r].question_speech = request'[r]
     /\ past({ "person", "state", "thoughts", "response" }) =>
          frame'[r].person_intent = val(1)
     /\ past({ "state", "thoughts", "response" }) => frame'[r].person_is = val(2)
     /\ past({ "thoughts", "response" }) =>
          /\ frame'[r].world_state = WorldState(val(2), val(1))
          /\ frame'[r].new_state = val(3)
     /\ past({ "response" }) => frame'[r].thoughts = Strip(Lower(val(4)))
     /\ past({ "done" }) =>
          /\ reply'[r].extra_state = Strip(Lower(val(3)))
          /\ reply'[r].response = val(5)

\* C8: a step of one request leaves the transcript, locals, calls, outputs and
\* result of every other request alone; each request's locals come from its own
\* data; build_state assigns world_state once in a request, and the locals are
\* gone when the request is over; once load_model has run, no step changes
\* whisper_model, tokenizer, text_model or device.
C8_RequestLocal ==
  [][ /\ \A r \in Reqs :
           /\ pc'[r] = pc[r] =>
                /\ request'[r] = request[r]
                /\ frame'[r] = frame[r]
                /\ calls'[r] = calls[r]
                /\ resps'[r] = resps[r]
                /\ reply'[r] = reply[r]
                /\ raised'[r] = raised[r]
                /\ ws_writes'[r] = ws_writes[r]
           /\ OwnData(r)
           /\ ws_writes'[r] <= 1
           /\ pc'[r] \in { "thoughts", "response", "done" } => ws_writes'[r] = 1
           /\ pc'[r] \in { "idle", "intent", "person", "state" } => ws_writes'[r] = 0
           /\ pc'[r] \in { "idle", "done", "failed" } => frame'[r] = EmptyFrame
      /\ whisper_model # "None" =>
           UNCHANGED << whisper_model, tokenizer, text_model, device >>
    ]_vars

\* two requests on different transcripts are in flight at different steps, with
\* the models loaded
C8_Witness ==
  \E r1, r2 \in Reqs :
    /\ pc[r1] = "response" /\ ws_writes[r1] = 1
    /\ pc[r2] = "state" /\ ws_writes[r2] = 0
    /\ request[r1] # request[r2]
    /\ whisper_model # "None"

\* C10: a transcribe request that created a temporary directory has tried to
\* remove it by the time it returns, whether the body succeeded or failed; unless
\* that removal failed, the directory no longer exists; a request whose body
\* failed returns status 500 with the error body. So every directory that exists
\* belongs to a request still running or to one whose removal failed.
C10_TempDirCleanup ==
  /\ \A r \in Reqs : t_pc[r] = "returned" =>
       /\ temp_dir[r] # 0 => t_rm[r] \in { "ok", "failed" }
       /\ (temp_dir[r] # 0 /\ t_rm[r] # "failed") => temp_dir[r] \notin fs
       /\ t_exc[r] # "" => t_reply[r] = [status |-> 500, body |-> "error"]
       /\ t_exc[r] = "" => t_reply[r] = [status |-> 200, body |-> "text"]
  /\ \A d \in fs : \E r \in Reqs :
       /\ temp_dir[r] = d
       /\ t_pc[r] # "returned" \/ t_rm[r] = "failed"

\* a request whose model call raised and a request that succeeded have both
\* returned, each with its directory removed
C10_Witness ==
  \E r1, r2 \in Reqs :
    /\ t_pc[r1] = "returned" /\ t_exc[r1] = "RuntimeError"
    /\ temp_dir[r1] # 0 /\ t_rm[r1] = "ok"
    /\ t_pc[r2] = "returned" /\ t_exc[r2] = ""
    /\ temp_dir[r2] # 0 /\ t_rm[r2] = "ok"

\* the three models were loaded when request r looked at them
AllLoaded(r) ==
  /\ k_seen[r].whisper_model # "None"
  /\ k_seen[r].text_model # "None"
  /\ k_seen[r].tokenizer # "None"

\* C11 (as claimed): health_ready returns 200 exactly when the three models are
\* loaded and the memory usage is not above 90%, and 503 otherwise; when one of
\* the three is not loaded the status is 'not_ready', whatever the memory.
C11_ReadyIffLoadedAndMemory ==
  \A r \in Reqs : k_pc[r] = "returned" =>
    /\ k_reply[r].code \in { 200, 503 }
    /\ k_reply[r].code = 200 <=> (AllLoaded(r) /\ k_seen[r].percent <= 900)
    /\ ~AllLoaded(r) => k_reply[r].status = "not_ready"

\* C11 (amended): health_ready returns 200 exactly when the three models are
\* loaded and the memory reading is not above 90% or could not be taken (psutil
\* raised), and 503 otherwise; when one of the three is not loaded the status is
\* 'not_ready', whatever the memory reading; with all three loaded the status is
\* 'degraded' on 503 and 'ok' on 200.
C11_ReadyIffLoadedAndReading ==
  \A r \in Reqs : k_pc[r] = "returned" =>
    /\ k_reply[r].code \in { 200, 503 }
    /\ k_reply[r].code = 200 <=>
         (AllLoaded(r) /\ (~k_seen[r].read_ok \/ k_seen[r].percent <= 900))
    /\ ~AllLoaded(r) => k_reply[r].status = "not_ready"
    /\ AllLoaded(r) =>
         k_reply[r].status = IF k_reply[r].code = 200 THEN "ok" ELSE "degraded"

\* one request met a half-loaded server with memory above 90%, another a loaded
\* server whose memory reading failed
C11_Witness ==
  \E r1, r2 \in Reqs :
    /\ k_pc[r1] = "returned"
    /\ k_seen[r1].whisper_model # "None" /\ k_seen[r1].text_model = "None"
    /\ k_seen[r1].read_ok /\ k_seen[r1].percent > 900
    /\ k_pc[r2] = "returned"
    /\ AllLoaded(r2) /\ ~k_seen[r2].read_ok

====
